---- MODULE Spec2Model ----
(***************************************************************************)
(* Model of zbus-xml-match (src/lib.rs): three resolvers that read a D-Bus *)
(* introspection document and return the type signature of a signal        *)
(* argument, of a method's return value, or of a whole signal body.        *)
(*                                                                         *)
(* Strings that the code only compares (names, directions) are TLA+        *)
(* strings; strings that the code builds or returns (type strings,         *)
(* signatures) are sequences of one-character strings, so concatenation,   *)
(* insert(0, '(') and push(')') are sequence operations.  Option<&str> is  *)
(* a sequence of length 0 (None) or 1 (Some).  A zbus::Error is a record   *)
(* of its variant name and its &'static str payload, the payload split     *)
(* into fragments so that a placeholder left in the literal is visible.    *)
(***************************************************************************)
EXTENDS Integers, Sequences, FiniteSets, TLC

VARIABLES
    file,       \* Spec: the introspection file at xml_path
    call,       \* Spec: the arguments of the last resolver call
    outcome,    \* Spec: what that call returned
    files,      \* SpecConc: the files on disk, by path
    pc,         \* SpecConc: position of each caller in its call
    req,        \* SpecConc: arguments of each caller's call
    xml,        \* SpecConc: each call's local `xml` (result of line 36)
    ret         \* SpecConc: the result each caller holds from its last call

vars == <<file, call, outcome, files, pc, req, xml, ret>>

(***************************************************************************)
(* Bounds                                                                  *)
(***************************************************************************)
MaxArgs == 2        \* longest argument list of a generated member
NumCallers == 2     \* concurrent callers in SpecConc

(***************************************************************************)
(* Values                                                                  *)
(***************************************************************************)
None == <<>>
Some(v) == <<v>>

Ok(v) == [kind |-> "Ok", val |-> v]
Err(variant, msg) == [kind |-> variant, val |-> msg]

SeqsUpTo(S, n) == UNION {[1..k -> S] : k \in 0..n}

\* type strings: one well-formed and one ill-formed per member kind
SignalTypes == {<<"(", "s", "o", ")">>, <<"a", "{">>}
MethodTypes == {<<"u">>, <<"(", "i">>}
WellFormedTypes == {<<"(", "s", "o", ")">>, <<"u">>}

SignalArgs == [name : {None, Some("nodeAdded"), Some("NodeAdded")},
               direction : {None},
               ty : SignalTypes]
MethodArgs == [name : {None},
               direction : {None, Some("in"), Some("out")},
               ty : MethodTypes]

DecoySignal == [name |-> "Rel", args |-> <<[name |-> Some("nodeAdded"), direction |-> None, ty |-> <<"a", "{">>]>>]
DecoyMethod == [name |-> "Rel", args |-> <<[name |-> None, direction |-> Some("out"), ty |-> <<"(", "i">>]>>]

SubjectNames == {"Abs", "abs"}
SubjectSignals == [name : SubjectNames, args : SeqsUpTo(SignalArgs, MaxArgs)]
SubjectMethods == [name : SubjectNames, args : SeqsUpTo(MethodArgs, MaxArgs)]

MemberLists(subjects, decoy) ==
    {<<>>} \cup {<<m>> : m \in subjects} \cup {<<decoy, m>> : m \in subjects}

\* the member list of the other kind, kept small
FewMethods == {<<>>, <<[name |-> "Abs", args |-> <<[name |-> None, direction |-> Some("out"), ty |-> <<"u">>]>>]>>}
FewSignals == {<<>>, <<[name |-> "Abs", args |-> <<[name |-> Some("nodeAdded"), direction |-> None, ty |-> <<"(", "s", "o", ")">>]>>]>>}

InterfaceNames == {"Cache", "cache"}
Interfaces ==
    [name : InterfaceNames, methods : FewMethods, signals : MemberLists(SubjectSignals, DecoySignal)]
    \cup
    [name : InterfaceNames, methods : MemberLists(SubjectMethods, DecoyMethod), signals : FewSignals]

DecoyInterface == [name |-> "Socket", methods |-> <<DecoyMethod>>, signals |-> <<DecoySignal>>]

\* file contents: a file that cannot be read, one that is not an
\* introspection document, and documents of zero, one or two interfaces
Unreadable == [readable |-> FALSE, wellformed |-> FALSE, interfaces |-> <<>>]
Garbage == [readable |-> TRUE, wellformed |-> FALSE, interfaces |-> <<>>]
Document(ifaces) == [readable |-> TRUE, wellformed |-> TRUE, interfaces |-> ifaces]

Files ==
    {Unreadable, Garbage, Document(<<>>)}
    \cup {Document(<<i>>) : i \in Interfaces}
    \cup {Document(<<DecoyInterface, i>>) : i \in Interfaces}

(***************************************************************************)
(* Library calls the resolvers make                                        *)
(***************************************************************************)
\* std::fs::read_to_string(xml_path)
read_to_string_cached(f) ==
    IF \E c \in DOMAIN pc : pc[c] = "read"
    THEN xml[CHOOSE c \in DOMAIN pc : pc[c] = "read"]
    ELSE IF f.readable THEN [ok |-> TRUE, text |-> f] ELSE [ok |-> FALSE, text |-> Unreadable]

read_to_string(f) ==
    IF f.readable THEN [ok |-> TRUE, text |-> f] ELSE [ok |-> FALSE, text |-> Unreadable]

\* Node::from_str(&xml)
from_str(text) ==
    IF text.wellformed THEN [ok |-> TRUE, interfaces |-> text.interfaces]
    ELSE [ok |-> FALSE, interfaces |-> <<>>]

\* the two `?` conversions of lines 36-37 into Box<dyn Error>
IoError == Err("Io", <<>>)
XmlError == Err("Xml", <<>>)

\* Iterator::find: the position of the first element among the matching
\* positions, 0 for Option::None
iter_find(matching) ==
    IF matching = {} THEN 0 ELSE CHOOSE i \in matching : \A j \in matching : i <= j

\* Signature::from_string_unchecked(signature)
from_string_checked(signature) ==
    IF signature \in WellFormedTypes THEN Ok(signature) ELSE Err("InvalidSignature", <<>>)

from_string_unchecked(signature) == Ok(signature)

\* str::to_lowercase on the names of the model, used by the case-folding
\* variants below
ToLower(n) ==
    CASE n = "nodeAdded" -> "nodeadded"
      [] n = "NodeAdded" -> "nodeadded"
      [] n = "Abs" -> "abs"
      [] n = "Rel" -> "rel"
      [] n = "Cache" -> "cache"
      [] n = "Socket" -> "socket"
      [] OTHER -> n

(***************************************************************************)
(* get_signature_of_signal_body_type                                       *)
(***************************************************************************)
signal_body_interface_matches_nocase(iface, interface_name) ==
    ToLower(iface.name) = ToLower(interface_name)

\* |iface| iface.name() == interface_name
signal_body_interface_matches(iface, interface_name) == iface.name = interface_name

signal_body_signals_and_methods(interface) == interface.methods \o interface.signals

\* interface.signals()
signal_body_signals(interface) == interface.signals

signal_body_arg_matches_nocase(arg, kind) ==
    IF arg.name # None /\ kind # None
    THEN ToLower(arg.name[1]) = ToLower(kind[1])
    ELSE arg.name = kind

signal_body_arg_matches_or_first(arg, kind) ==
    IF kind = None THEN TRUE ELSE arg.name = kind

\* |arg| arg.name() == kind
signal_body_arg_matches(arg, kind) == arg.name = kind

signal_body_member_not_found_as_arg ==
    Err("MissingParameter", <<"no ", "{kind}", " found in ", "{args:?}">>)

\* MissingParameter("no {member_name} found in {signals:?}")
signal_body_member_not_found ==
    Err("MissingParameter", <<"no ", "{member_name}", " found in ", "{signals:?}">>)

\* zbus::Error::MissingParameter("no {kind} found in {args:?}")
signal_body_arg_not_found ==
    Err("MissingParameter", <<"no ", "{kind}", " found in ", "{args:?}">>)

\* lines 37-61, from the result of the read of line 36
signal_body_type_from_xml(x, interface_name, member_name, kind) ==
    IF ~x.ok THEN IoError ELSE
    LET node == from_str(x.text) IN
    IF ~node.ok THEN XmlError ELSE
    LET interfaces == node.interfaces
        i == iter_find({n \in DOMAIN interfaces :
                 signal_body_interface_matches(interfaces[n], interface_name)})
    IN
    IF i = 0 THEN Err("InterfaceNotFound", <<>>) ELSE
    LET signals == signal_body_signals(interfaces[i])
        s == iter_find({n \in DOMAIN signals : signals[n].name = member_name})
    IN
    IF s = 0 THEN signal_body_member_not_found ELSE
    LET args == signals[s].args
        a == iter_find({n \in DOMAIN args : signal_body_arg_matches(args[n], kind)})
    IN
    IF a = 0 THEN signal_body_arg_not_found ELSE
    from_string_unchecked(args[a].ty)

get_signature_of_signal_body_type(f, interface_name, member_name, kind) ==
    signal_body_type_from_xml(read_to_string(f), interface_name, member_name, kind)

(***************************************************************************)
(* get_signature_of_method_return_type_from_xml                            *)
(***************************************************************************)
method_arg_is_out_or_untagged(arg) == arg.direction # Some("in")

\* |arg| arg.direction() == Some("out")
method_arg_is_out(arg) == arg.direction = Some("out")

\* MissingParameter("no {member_name} found in {methods:?}")
method_member_not_found ==
    Err("MissingParameter", <<"no ", "{member_name}", " found in ", "{methods:?}">>)

\* MissingParameter("no argument with 'out' direction in {args:?}")
method_no_out_arg ==
    Err("MissingParameter", <<"no argument with 'out' direction in ", "{args:?}">>)

\* lines 91-117, from the result of the read of line 90
method_return_type_from_xml(x, interface_name, member_name) ==
    IF ~x.ok THEN IoError ELSE
    LET node == from_str(x.text) IN
    IF ~node.ok THEN XmlError ELSE
    LET interfaces == node.interfaces
        i == iter_find({n \in DOMAIN interfaces : interfaces[n].name = interface_name})
    IN
    IF i = 0 THEN Err("InterfaceNotFound", <<>>) ELSE
    LET methods == interfaces[i].methods
        m == iter_find({n \in DOMAIN methods : methods[n].name = member_name})
    IN
    IF m = 0 THEN method_member_not_found ELSE
    LET args == methods[m].args
        a == iter_find({n \in DOMAIN args : method_arg_is_out(args[n])})
    IN
    IF a = 0 THEN method_no_out_arg ELSE
    from_string_unchecked(args[a].ty)

get_signature_of_method_return_type_from_xml(f, interface_name, member_name) ==
    method_return_type_from_xml(read_to_string(f), interface_name, member_name)

(***************************************************************************)
(* get_signature_of_atspi_event_from_xml                                   *)
(***************************************************************************)
RECURSIVE event_collect_named(_)
event_collect_named(args) ==
    IF args = <<>> THEN <<>>
    ELSE (IF Head(args).name = None THEN <<>> ELSE Head(args).ty)
         \o event_collect_named(Tail(args))

\* args.into_iter().map(|arg| arg.ty()).collect::<String>()
RECURSIVE event_collect(_)
event_collect(args) ==
    IF args = <<>> THEN <<>> ELSE Head(args).ty \o event_collect(Tail(args))

\* MissingParameter("no {member_name} found in {signals:?}")
event_member_not_found ==
    Err("MissingParameter", <<"no ", "{member_name}", " found in ", "{signals:?}">>)

\* lines 147-170, from the result of the read of line 146
atspi_event_from_xml(x, interface_name, member_name) ==
    IF ~x.ok THEN IoError ELSE
    LET node == from_str(x.text) IN
    IF ~node.ok THEN XmlError ELSE
    LET interfaces == node.interfaces
        i == iter_find({n \in DOMAIN interfaces : interfaces[n].name = interface_name})
    IN
    IF i = 0 THEN Err("InterfaceNotFound", <<>>) ELSE
    LET signals == interfaces[i].signals
        s == iter_find({n \in DOMAIN signals : signals[n].name = member_name})
    IN
    IF s = 0 THEN event_member_not_found ELSE
    LET args == signals[s].args
        collected == event_collect(args)
        inserted == <<"(">> \o collected
        pushed == Append(inserted, ")")
    IN from_string_unchecked(pushed)

get_signature_of_atspi_event_from_xml(f, interface_name, member_name) ==
    atspi_event_from_xml(read_to_string(f), interface_name, member_name)

(***************************************************************************)
(* Spec: one file, the three resolvers called on it with every request     *)
(***************************************************************************)
RequestInterfaces == {"Cache"}
RequestMembers == {"Abs", "Rel"}
RequestKinds == {None, Some("nodeAdded"), Some("nodeadded")}

NoCall == [fn |-> "none", interface_name |-> "", member_name |-> "", kind |-> None]
NoOutcome == Err("none", <<>>)

Callers == 1..NumCallers
Paths == {"a.xml", "b.xml"}
NoRead == [ok |-> FALSE, text |-> Unreadable]
NoReq == [fn |-> "none", path |-> "", interface_name |-> "", member_name |-> "", kind |-> None]

ConcIdle ==
    /\ pc = [c \in Callers |-> "idle"]
    /\ req = [c \in Callers |-> NoReq]
    /\ xml = [c \in Callers |-> NoRead]
    /\ ret = [c \in Callers |-> NoOutcome]

Init ==
    /\ file \in Files
    /\ call = NoCall
    /\ outcome = NoOutcome
    /\ files = [p \in Paths |-> Unreadable]
    /\ ConcIdle

CallSignalBody(interface_name, member_name, kind) ==
    /\ call' = [fn |-> "signal_body", interface_name |-> interface_name,
                member_name |-> member_name, kind |-> kind]
    /\ outcome' = get_signature_of_signal_body_type(file, interface_name, member_name, kind)
    /\ UNCHANGED <<file, files, pc, req, xml, ret>>

CallMethodReturn(interface_name, member_name) ==
    /\ call' = [fn |-> "method_return", interface_name |-> interface_name,
                member_name |-> member_name, kind |-> None]
    /\ outcome' = get_signature_of_method_return_type_from_xml(file, interface_name, member_name)
    /\ UNCHANGED <<file, files, pc, req, xml, ret>>

CallEvent(interface_name, member_name) ==
    /\ call' = [fn |-> "event", interface_name |-> interface_name,
                member_name |-> member_name, kind |-> None]
    /\ outcome' = get_signature_of_atspi_event_from_xml(file, interface_name, member_name)
    /\ UNCHANGED <<file, files, pc, req, xml, ret>>

Next ==
    \E i \in RequestInterfaces, m \in RequestMembers :
        \/ \E k \in RequestKinds : CallSignalBody(i, m, k)
        \/ CallMethodReturn(i, m)
        \/ CallEvent(i, m)

Spec == Init /\ [][Next]_vars

(***************************************************************************)
(* SpecConc: several callers, each call in two steps -- the read of the    *)
(* file into the call's local `xml`, then the rest of the function on      *)
(* that local -- over files that do not change.  After the call returns    *)
(* its local is dropped and the caller holds the result in ret.            *)
(***************************************************************************)
ConcDocA ==
    Document(<<[name |-> "Cache",
                methods |-> <<[name |-> "Abs", args |-> <<[name |-> None, direction |-> Some("out"), ty |-> <<"u">>]>>]>>,
                signals |-> <<[name |-> "Abs", args |-> <<[name |-> Some("nodeAdded"), direction |-> None, ty |-> <<"(", "s", "o", ")">>]>>]>>]>>)
ConcDocB ==
    Document(<<[name |-> "Cache",
                methods |-> <<[name |-> "Abs", args |-> <<[name |-> None, direction |-> Some("out"), ty |-> <<"(", "i">>]>>]>>,
                signals |-> <<[name |-> "Abs", args |-> <<[name |-> None, direction |-> None, ty |-> <<"a", "{">>]>>]>>]>>)
ConcFiles == {Unreadable, Garbage, ConcDocA, ConcDocB}

ConcRequests ==
    [fn : {"signal_body"}, path : Paths, interface_name : {"Cache"},
     member_name : {"Abs"}, kind : {None, Some("nodeAdded")}]
    \cup
    [fn : {"method_return", "event"}, path : Paths, interface_name : {"Cache"},
     member_name : {"Abs"}, kind : {None}]

InitConc ==
    /\ file = Unreadable
    /\ call = NoCall
    /\ outcome = NoOutcome
    /\ files \in [Paths -> ConcFiles]
    /\ ConcIdle

\* lines 36, 90, 146: let xml = std::fs::read_to_string(xml_path)
Begin(c, r) ==
    /\ pc[c] = "idle"
    /\ req' = [req EXCEPT ![c] = r]
    /\ xml' = [xml EXCEPT ![c] = read_to_string(files[r.path])]
    /\ ret' = [ret EXCEPT ![c] = NoOutcome]
    /\ pc' = [pc EXCEPT ![c] = "read"]
    /\ UNCHANGED <<file, call, outcome, files>>

FinishSignalBody(c) ==
    /\ pc[c] = "read"
    /\ req[c].fn = "signal_body"
    /\ ret' = [ret EXCEPT ![c] = signal_body_type_from_xml(
                   xml[c], req[c].interface_name, req[c].member_name, req[c].kind)]
    /\ xml' = [xml EXCEPT ![c] = NoRead]
    /\ pc' = [pc EXCEPT ![c] = "idle"]
    /\ UNCHANGED <<file, call, outcome, files, req>>

FinishMethodReturn(c) ==
    /\ pc[c] = "read"
    /\ req[c].fn = "method_return"
    /\ ret' = [ret EXCEPT ![c] = method_return_type_from_xml(
                   xml[c], req[c].interface_name, req[c].member_name)]
    /\ xml' = [xml EXCEPT ![c] = NoRead]
    /\ pc' = [pc EXCEPT ![c] = "idle"]
    /\ UNCHANGED <<file, call, outcome, files, req>>

FinishEvent(c) ==
    /\ pc[c] = "read"
    /\ req[c].fn = "event"
    /\ ret' = [ret EXCEPT ![c] = atspi_event_from_xml(
                   xml[c], req[c].interface_name, req[c].member_name)]
    /\ xml' = [xml EXCEPT ![c] = NoRead]
    /\ pc' = [pc EXCEPT ![c] = "idle"]
    /\ UNCHANGED <<file, call, outcome, files, req>>

NextConc ==
    \E c \in Callers :
        \/ \E r \in ConcRequests : Begin(c, r)
        \/ FinishSignalBody(c)
        \/ FinishMethodReturn(c)
        \/ FinishEvent(c)

SpecConc == InitConc /\ [][NextConc]_vars

(***************************************************************************)
(* What a call of Spec was about, stated on the document itself            *)
(***************************************************************************)
Called == call.fn # "none"
Parsed == file.readable /\ file.wellformed

FirstNamed(list, name, n) ==
    /\ n \in DOMAIN list
    /\ list[n].name = name
    /\ \A j \in 1..(n - 1) : list[j].name # name
NoneNamed(list, name) == \A n \in DOMAIN list : list[n].name # name

InterfaceMissing == Called /\ Parsed /\ NoneNamed(file.interfaces, call.interface_name)
InterfaceLocated == Called /\ Parsed /\ ~NoneNamed(file.interfaces, call.interface_name)
TheInterface ==
    file.interfaces[CHOOSE n \in DOMAIN file.interfaces :
                        FirstNamed(file.interfaces, call.interface_name, n)]
\* the collection the called resolver is documented to search
OwnMembers == IF call.fn = "method_return" THEN TheInterface.methods ELSE TheInterface.signals
OtherMembers == IF call.fn = "method_return" THEN TheInterface.signals ELSE TheInterface.methods

MemberMissing == InterfaceLocated /\ NoneNamed(OwnMembers, call.member_name)
MemberLocated == InterfaceLocated /\ ~NoneNamed(OwnMembers, call.member_name)
TheArgs ==
    OwnMembers[CHOOSE n \in DOMAIN OwnMembers :
                   FirstNamed(OwnMembers, call.member_name, n)].args

ArgumentMissing ==
    /\ call.fn = "signal_body"
    /\ MemberLocated
    /\ \A n \in DOMAIN TheArgs : TheArgs[n].name # call.kind
NoOutput ==
    /\ call.fn = "method_return"
    /\ MemberLocated
    /\ \A n \in DOMAIN TheArgs : TheArgs[n].direction # Some("out")

RECURSIVE TypeLength(_, _)
\* total length of the type strings of the first n arguments
TypeLength(args, n) == IF n = 0 THEN 0 ELSE TypeLength(args, n - 1) + Len(args[n].ty)

Range(f) == {f[n] : n \in DOMAIN f}

(***************************************************************************)
(* C1                                                                      *)
(***************************************************************************)
\* C1: when the named interface exists and has a signal of the requested
\* name, the event-body composer succeeds and returns "(" followed by the
\* type strings of all of the signal's arguments in declaration order
\* followed by ")", whatever the arguments' names; no argument gives "()".
C1_EventBodyIsParenthesizedConcatenation ==
    (call.fn = "event" /\ MemberLocated) =>
        /\ outcome.kind = "Ok"
        /\ Len(outcome.val) = TypeLength(TheArgs, Len(TheArgs)) + 2
        /\ outcome.val[1] = "("
        /\ outcome.val[Len(outcome.val)] = ")"
        /\ \A n \in DOMAIN TheArgs :
               SubSeq(outcome.val, TypeLength(TheArgs, n - 1) + 2,
                      TypeLength(TheArgs, n) + 1) = TheArgs[n].ty
        /\ (TheArgs = <<>> => outcome.val = <<"(", ")">>)

C1_Witness ==
    /\ call.fn = "event"
    /\ MemberLocated
    /\ Len(TheArgs) = 2
    /\ TheArgs[1].name = None
    /\ TheArgs[2].name # None
    /\ TheArgs[1].ty # TheArgs[2].ty
    /\ outcome = Ok(<<"(", "a", "{", "(", "s", "o", ")", ")">>)

(***************************************************************************)
(* C2                                                                      *)
(***************************************************************************)
\* C2: for a located method the method-return resolver returns the type
\* string of the first argument in declaration order whose direction is
\* `out`, and fails with the no-output-argument error when no argument is
\* tagged `out` (all `in`, or untagged).
C2_FirstOutArgumentOrNoOutput ==
    (call.fn = "method_return" /\ MemberLocated) =>
        /\ \A n \in DOMAIN TheArgs :
               (/\ TheArgs[n].direction = Some("out")
                /\ \A j \in 1..(n - 1) : TheArgs[j].direction # Some("out"))
               => outcome = Ok(TheArgs[n].ty)
        /\ NoOutput =>
               outcome = Err("MissingParameter",
                             <<"no argument with 'out' direction in ", "{args:?}">>)

C2_Witness ==
    /\ call.fn = "method_return"
    /\ MemberLocated
    /\ Len(TheArgs) = 2
    /\ TheArgs[1].direction = None
    /\ TheArgs[2].direction = Some("out")
    /\ TheArgs[1].ty # TheArgs[2].ty
    /\ outcome = Ok(TheArgs[2].ty)

(***************************************************************************)
(* C3                                                                      *)
(***************************************************************************)
\* C3: for a located signal and a requested argument name the
\* signal-argument resolver returns the type string of the first argument
\* whose name is exactly the requested one (names differing in case do not
\* match), and fails with the argument-not-found error when none is.
C3_FirstArgumentOfExactName ==
    (call.fn = "signal_body" /\ MemberLocated /\ call.kind # None) =>
        /\ \A n \in DOMAIN TheArgs :
               (/\ TheArgs[n].name = call.kind
                /\ \A j \in 1..(n - 1) : TheArgs[j].name # call.kind)
               => outcome = Ok(TheArgs[n].ty)
        /\ ArgumentMissing =>
               outcome = Err("MissingParameter",
                             <<"no ", "{kind}", " found in ", "{args:?}">>)

C3_Witness ==
    /\ call.fn = "signal_body"
    /\ MemberLocated
    /\ call.kind = Some("nodeAdded")
    /\ Len(TheArgs) = 2
    /\ TheArgs[1].name = Some("NodeAdded")
    /\ TheArgs[2].name = Some("nodeAdded")
    /\ TheArgs[1].ty # TheArgs[2].ty
    /\ outcome = Ok(TheArgs[2].ty)

(***************************************************************************)
(* C4                                                                      *)
(***************************************************************************)
\* C4: when the document reads and parses but no interface has exactly the
\* requested name, each resolver returns InterfaceNotFound, whatever the
\* member and argument names, and never a signature.
C4_UnknownInterfaceIsInterfaceNotFound ==
    InterfaceMissing => outcome = Err("InterfaceNotFound", <<>>)

C4_Witness ==
    /\ call.fn = "signal_body"
    /\ InterfaceMissing
    /\ \E n \in DOMAIN file.interfaces :
           /\ file.interfaces[n].name = "cache"
           /\ ~NoneNamed(file.interfaces[n].signals, call.member_name)
    /\ outcome = Err("InterfaceNotFound", <<>>)

(***************************************************************************)
(* C5                                                                      *)
(***************************************************************************)
MemberMessages ==
    {<<"no ", "{member_name}", " found in ", "{signals:?}">>,
     <<"no ", "{member_name}", " found in ", "{methods:?}">>}
ArgumentMessage == <<"no ", "{kind}", " found in ", "{args:?}">>
NoOutputMessage == <<"no argument with 'out' direction in ", "{args:?}">>

\* C5 as stated: a missing member, a missing named argument and a missing
\* `out` argument each surface as an error kind of their own, so that the
\* kind alone tells the three causes and InterfaceNotFound apart.
C5_SeparateKindPerCause ==
    /\ MemberMissing =>
           outcome.kind \notin {"Ok", "InterfaceNotFound",
                                signal_body_arg_not_found.kind, method_no_out_arg.kind}
    /\ ArgumentMissing =>
           outcome.kind \notin {"Ok", "InterfaceNotFound",
                                signal_body_member_not_found.kind, method_no_out_arg.kind}
    /\ NoOutput =>
           outcome.kind \notin {"Ok", "InterfaceNotFound",
                                method_member_not_found.kind, signal_body_arg_not_found.kind}

\* C5 amended: every failure surfaces as an error; a missing member, a
\* missing named argument and a missing `out` argument all surface as the
\* one kind MissingParameter, which differs from InterfaceNotFound, and
\* are told apart only by the error's fixed message text, which differs
\* per cause.
C5_OneKindSeparateMessages ==
    /\ InterfaceMissing => outcome.kind = "InterfaceNotFound"
    /\ MemberMissing =>
           /\ outcome.kind = "MissingParameter"
           /\ outcome.val \in MemberMessages
           /\ outcome.val \notin {ArgumentMessage, NoOutputMessage}
    /\ ArgumentMissing =>
           /\ outcome.kind = "MissingParameter"
           /\ outcome.val = ArgumentMessage
           /\ outcome.val \notin MemberMessages
    /\ NoOutput =>
           /\ outcome.kind = "MissingParameter"
           /\ outcome.val = NoOutputMessage
           /\ outcome.val \notin MemberMessages

C5_Witness ==
    /\ call.fn = "signal_body"
    /\ MemberMissing
    /\ ~NoneNamed(OtherMembers, call.member_name)
    /\ outcome = Err("MissingParameter", <<"no ", "{member_name}", " found in ", "{signals:?}">>)

(***************************************************************************)
(* C6                                                                      *)
(***************************************************************************)
\* C6: when the signal-argument resolver fails because no argument of the
\* located signal has the requested name, the error names the signal and
\* the available argument names of that signal.
C6_ArgumentErrorNamesSignalAndArguments ==
    ArgumentMissing =>
        /\ call.member_name \in Range(outcome.val)
        /\ \A n \in DOMAIN TheArgs :
               TheArgs[n].name # None => TheArgs[n].name[1] \in Range(outcome.val)

(***************************************************************************)
(* C7                                                                      *)
(***************************************************************************)
Resolve(r) ==
    CASE r.fn = "signal_body" ->
             get_signature_of_signal_body_type(
                 files[r.path], r.interface_name, r.member_name, r.kind)
      [] r.fn = "method_return" ->
             get_signature_of_method_return_type_from_xml(
                 files[r.path], r.interface_name, r.member_name)
      [] r.fn = "event" ->
             get_signature_of_atspi_event_from_xml(
                 files[r.path], r.interface_name, r.member_name)

Returned(c) == pc[c] = "idle" /\ req[c] # NoReq

\* C7: no state is carried across calls: under any interleaving of calls by
\* several callers over unchanged files, two calls with the same arguments
\* return the same outcome, failed calls included, and so do two calls
\* that differ only in the path when both paths hold the same document.
C7_SameArgumentsSameOutcome ==
    /\ \A c, d \in Callers :
           (Returned(c) /\ Returned(d) /\ req[c] = req[d]) => ret[c] = ret[d]
    /\ \A c, d \in Callers :
           (Returned(c) /\ Returned(d)
            /\ [req[c] EXCEPT !.path = ""] = [req[d] EXCEPT !.path = ""]
            /\ files[req[c].path] = files[req[d].path]) => ret[c] = ret[d]

C7_Witness ==
    \E c, d \in Callers :
        /\ c # d
        /\ Returned(c)
        /\ Returned(d)
        /\ req[c] = req[d]
        /\ files[req[c].path] # files[CHOOSE p \in Paths : p # req[c].path]
        /\ ret[c].kind = "Ok"
        /\ ret[c] = ret[d]

(***************************************************************************)
(* C8                                                                      *)
(***************************************************************************)
\* C8: the two signal resolvers search only the interface's signals and the
\* method resolver only its methods: a name present only among the members
\* of the other kind gives the member-not-found error, and a signature
\* that is returned comes from the arguments of the member of the
\* resolver's own kind.
C8_LookupScopedByCollection ==
    /\ MemberMissing =>
           /\ outcome.kind = "MissingParameter"
           /\ outcome.val \in MemberMessages
    /\ (Called /\ Parsed /\ outcome.kind = "Ok") =>
           /\ MemberLocated
           /\ call.fn \in {"signal_body", "method_return"} =>
                  \E n \in DOMAIN TheArgs : outcome.val = TheArgs[n].ty
           /\ call.fn = "event" =>
                  Len(outcome.val) = TypeLength(TheArgs, Len(TheArgs)) + 2

C8_Witness ==
    /\ call.fn = "signal_body"
    /\ MemberLocated
    /\ ~NoneNamed(OtherMembers, call.member_name)
    /\ outcome.kind = "Ok"
    /\ \A n \in DOMAIN OtherMembers : \A a \in DOMAIN OtherMembers[n].args :
           OtherMembers[n].args[a].ty # outcome.val

(***************************************************************************)
(* C9                                                                      *)
(***************************************************************************)
\* C9: after a successful parse the only failures are the lookup failures
\* (interface, member, argument, out-argument); a type string, well-formed
\* or not, never causes a failure and is returned as it stands: the
\* selected argument's by the two single-argument resolvers, every
\* argument's, between the parentheses, by the event-body composer.
C9_TypeStringsPassThrough ==
    (Called /\ Parsed) =>
        /\ outcome.kind # "Ok" =>
               InterfaceMissing \/ MemberMissing \/ ArgumentMissing \/ NoOutput
        /\ (call.fn = "signal_body" /\ MemberLocated /\ ~ArgumentMissing) =>
               /\ outcome.kind = "Ok"
               /\ \E n \in DOMAIN TheArgs :
                      TheArgs[n].name = call.kind /\ outcome.val = TheArgs[n].ty
        /\ (call.fn = "method_return" /\ MemberLocated /\ ~NoOutput) =>
               /\ outcome.kind = "Ok"
               /\ \E n \in DOMAIN TheArgs :
                      TheArgs[n].direction = Some("out") /\ outcome.val = TheArgs[n].ty
        /\ (call.fn = "event" /\ MemberLocated) =>
               /\ outcome.kind = "Ok"
               /\ \A n \in DOMAIN TheArgs :
                   \E k \in 1..Len(outcome.val) :
                       /\ k > 1
                       /\ k + Len(TheArgs[n].ty) <= Len(outcome.val)
                       /\ SubSeq(outcome.val, k, k + Len(TheArgs[n].ty) - 1) = TheArgs[n].ty

C9_Witness ==
    /\ call.fn = "method_return"
    /\ MemberLocated
    /\ outcome = Ok(<<"(", "i">>)
    /\ outcome.val \notin WellFormedTypes

(***************************************************************************)
(* C10                                                                     *)
(***************************************************************************)
\* C10: called without an argument name the signal-argument resolver
\* returns the type string of the first argument that has no name and
\* fails with the argument-not-found error when every argument is named
\* (it does not fall back to the first argument); a given name never
\* matches an argument without a name.
C10_NoNameSelectsFirstUnnamed ==
    (call.fn = "signal_body" /\ MemberLocated) =>
        /\ call.kind = None =>
               /\ \A n \in DOMAIN TheArgs :
                      (/\ TheArgs[n].name = None
                       /\ \A j \in 1..(n - 1) : TheArgs[j].name # None)
                      => outcome = Ok(TheArgs[n].ty)
               /\ (\A n \in DOMAIN TheArgs : TheArgs[n].name # None) =>
                      outcome = Err("MissingParameter", ArgumentMessage)
        /\ (call.kind # None /\ \A n \in DOMAIN TheArgs : TheArgs[n].name = None) =>
               outcome = Err("MissingParameter", ArgumentMessage)

C10_Witness ==
    /\ call.fn = "signal_body"
    /\ MemberLocated
    /\ call.kind = None
    /\ Len(TheArgs) = 2
    /\ TheArgs[1].name # None
    /\ TheArgs[2].name = None
    /\ TheArgs[1].ty # TheArgs[2].ty
    /\ outcome = Ok(TheArgs[2].ty)
====
